---- MODULE Spec2Model ----
(***************************************************************************)
(* Family Tree Creator.  The repository holds three variants of the same   *)
(* page script, each with its own familyMembers list and nextId counter:   *)
(*   src/JS/script.js      relationship form (root, parent, child,         *)
(*                         sibling, spouse) and the manual layout          *)
(*   src/unnamed/part_000  addMember / deleteMember with parents and       *)
(*                         spouse fields                                   *)
(*   src/unnamed/part_001  relatedTo form drawn with d3.stratify           *)
(* Each variant has its own specification over the shared variables;       *)
(* SpecWalk runs script.js's layout walk one positionNode call at a time,  *)
(* SpecFamily runs script.js's form with root and child submissions only.  *)
(***************************************************************************)
EXTENDS Integers, Sequences, FiniteSets, TLC

VARIABLES
    familyMembers,  \* the array of member objects, in insertion order
    arrays,         \* script.js: the parents arrays on the heap, by reference
    nextId,         \* the id counter
    outcome,        \* how the latest handler call returned
    tree            \* what the tree container shows

vars == <<familyMembers, arrays, nextId, outcome, tree>>

\* Largest number of members script.js is run to.
MaxMembers == 4

-----------------------------------------------------------------------------
(* JavaScript values.  Form values are strings, member ids are numbers;    *)
(* the code compares them with both == and ===.                            *)

Null == [t |-> "null"]
Undefined == [t |-> "undefined"]
NaN == [t |-> "NaN"]
Num(n) == [t |-> "number", n |-> n]
Str(s) == [t |-> "string", s |-> s]
\* A reference to the k-th array of the heap.
Ref(k) == [t |-> "array", ref |-> k]

Digits == <<"0", "1", "2", "3", "4", "5", "6", "7", "8", "9">>
DigitSet == {Digits[i] : i \in 1..Len(Digits)}
DigitValue == [c \in DigitSet |-> CHOOSE d \in 0..(Len(Digits) - 1) : Digits[d + 1] = c]
DigitVal(c) == DigitValue[c]

\* Number.prototype.toString for a non-negative integer.
RECURSIVE NumToStr(_)
NumToStr(n) ==
    IF n < Len(Digits) THEN <<Digits[n + 1]>>
    ELSE NumToStr(n \div Len(Digits)) \o <<Digits[(n % Len(Digits)) + 1]>>

RECURSIVE DigitsToNat(_)
DigitsToNat(s) ==
    IF s = <<>> THEN 0
    ELSE DigitsToNat(SubSeq(s, 1, Len(s) - 1)) * Len(Digits) + DigitVal(s[Len(s)])

Whitespace == {" "}

\* String.prototype.trim
RECURSIVE Trim(_)
Trim(s) ==
    IF s = <<>> THEN s
    ELSE IF s[1] \in Whitespace THEN Trim(Tail(s))
    ELSE IF s[Len(s)] \in Whitespace THEN Trim(SubSeq(s, 1, Len(s) - 1))
    ELSE s

\* ToNumber of a string: blank is 0, a decimal numeral its value, else NaN.
StrToNum(s) ==
    LET t == Trim(s)
    IN IF \A i \in 1..Len(t) : t[i] \in DigitSet THEN Num(DigitsToNat(t)) ELSE NaN

\* a === b
StrictEq(a, b) == a # NaN /\ a = b

\* a == b
LooseEq(a, b) ==
    IF a.t = b.t THEN StrictEq(a, b)
    ELSE IF {a.t, b.t} = {"null", "undefined"} THEN TRUE
    ELSE IF a.t = "number" /\ b.t = "string" THEN StrictEq(a, StrToNum(b.s))
    ELSE IF a.t = "string" /\ b.t = "number" THEN StrictEq(StrToNum(a.s), b)
    ELSE FALSE

\* ToBoolean
Truthy(v) ==
    CASE v.t = "null" -> FALSE
      [] v.t = "undefined" -> FALSE
      [] v.t = "NaN" -> FALSE
      [] v.t = "number" -> v.n # 0
      [] v.t = "string" -> v.s # <<>>
      [] OTHER -> TRUE

\* Array.prototype.find: the element of s at the least index in I (the
\* indices passing the test), else undefined.
FirstOf(s, I) == IF I = {} THEN Undefined ELSE s[CHOOSE i \in I : \A j \in I : i <= j]

Range(s) == {s[i] : i \in 1..Len(s)}

-----------------------------------------------------------------------------
(* src/JS/script.js                                                        *)

\* The names typed into the form, as character sequences.
MemberNames == {<<" ">>, <<" ", "a">>}
BlankNames == {n \in MemberNames : Trim(n) = <<>>}

Relationships == {"root", "parent", "child", "sibling", "spouse"}

\* updateDropdowns: the default option and one option per member, whose
\* value is the member's id as a string.
updateDropdowns ==
    {Str(<<>>)} \cup {Str(NumToStr(familyMembers[i].id)) : i \in 1..Len(familyMembers)}

\* member.parents as a sequence of ids; undefined when the property is absent.
ParentsOf(m) == IF m.parents.t = "array" THEN arrays[m.parents.ref] ELSE Undefined

\* The texts passed to showMessage.
NoNameMessage == "Please enter a member's name."
DuplicateRootMessage == "A family tree can only have one root member."
NoSelectionMessage == "Please select a person to relate this member to."
SelfMessage == "A person cannot be related to themselves."
ChildNotFoundMessage == "Selected child not found."
TwoParentsMessage == "This child already has two parents."
ParentNotFoundMessage == "Selected parent not found."
NoSpouseMessage == "The selected person does not have a spouse to add as the second parent. Please add their spouse first."
NoParentMessage == "The selected member must have a parent to add a sibling."
HasSpouseMessage == "The selected member already has a spouse."

\* How one run of the submit handler ends: the list after any in-place change
\* of a stored member, the member to push (or undefined), the heap, the
\* counter and the message shown ("none" when showMessage is not called).
Rejected(message) ==
    [members |-> familyMembers, newMember |-> Undefined, arrays |-> arrays,
     nextId |-> nextId, message |-> message]

Added(members, member, heap) ==
    [members |-> members, newMember |-> member, arrays |-> heap,
     nextId |-> nextId + 1, message |-> "none"]

\* familyMembers.find(m => m.id == v)
MemberById(v) ==
    FirstOf(familyMembers,
            {i \in 1..Len(familyMembers) : LooseEq(Num(familyMembers[i].id), v)})

\* familyMembers.find(m => m.relatedTo == v && m.relationship === 'spouse')
SpouseRecordOf(v) ==
    FirstOf(familyMembers,
            {i \in 1..Len(familyMembers) :
                /\ LooseEq(familyMembers[i].relatedTo, v)
                /\ familyMembers[i].relationship = "spouse"})

\* The index of the first member whose id == relatedTo, 0 when there is none.
IndexById(relatedTo) ==
    LET I == {i \in 1..Len(familyMembers) : LooseEq(Num(familyMembers[i].id), relatedTo)}
    IN IF I = {} THEN 0 ELSE CHOOSE i \in I : \A j \in I : i <= j

\* RootBranch with the emptiness test off by one.
RootBranchOffByOne(memberName) ==
    IF Len(familyMembers) > 1
    THEN Rejected(DuplicateRootMessage)
    ELSE Added(familyMembers,
               [id |-> nextId, name |-> memberName, relatedTo |-> Null,
                relationship |-> "root", parents |-> Ref(Len(arrays) + 1)],
               Append(arrays, <<>>))

RootBranch(memberName) ==
    IF Len(familyMembers) > 0
    THEN Rejected(DuplicateRootMessage)
    ELSE Added(familyMembers,
               [id |-> nextId, name |-> memberName, relatedTo |-> Null,
                relationship |-> "root", parents |-> Ref(Len(arrays) + 1)],
               Append(arrays, <<>>))

\* ParentBranch where the new parent is handed the child's parents array.
ParentBranchSharedParents(memberName, relatedTo) ==
    LET c == IndexById(relatedTo)
    IN IF c = 0 THEN Rejected(ChildNotFoundMessage)
       ELSE LET childMember == familyMembers[c]
            IN IF childMember.parents.t = "array" /\ Len(ParentsOf(childMember)) >= 2
               THEN Rejected(TwoParentsMessage)
               ELSE LET fresh == childMember.parents.t # "array"
                        heap == IF fresh THEN Append(arrays, <<>>) ELSE arrays
                        ref == IF fresh THEN Len(heap) ELSE childMember.parents.ref
                        newMember == [id |-> nextId, name |-> memberName,
                                      relatedTo |-> relatedTo,
                                      relationship |-> "parent", parents |-> Ref(ref)]
                    IN Added([familyMembers EXCEPT ![c].parents = Ref(ref)],
                             newMember,
                             [heap EXCEPT ![ref] = Append(@, newMember.id)])

\* ParentBranch with the two-parents test off by one.
ParentBranchOffByOne(memberName, relatedTo) ==
    LET c == IndexById(relatedTo)
    IN IF c = 0 THEN Rejected(ChildNotFoundMessage)
       ELSE LET childMember == familyMembers[c]
            IN IF childMember.parents.t = "array" /\ Len(ParentsOf(childMember)) > 2
               THEN Rejected(TwoParentsMessage)
               ELSE LET newMember == [id |-> nextId, name |-> memberName,
                                      relatedTo |-> relatedTo,
                                      relationship |-> "parent", parents |-> Undefined]
                        fresh == childMember.parents.t # "array"
                        heap == IF fresh THEN Append(arrays, <<>>) ELSE arrays
                        ref == IF fresh THEN Len(heap) ELSE childMember.parents.ref
                    IN Added([familyMembers EXCEPT ![c].parents = Ref(ref)],
                             newMember,
                             [heap EXCEPT ![ref] = Append(@, newMember.id)])

ParentBranch(memberName, relatedTo) ==
    LET c == IndexById(relatedTo)
    IN IF c = 0 THEN Rejected(ChildNotFoundMessage)
       ELSE LET childMember == familyMembers[c]
            IN IF childMember.parents.t = "array" /\ Len(ParentsOf(childMember)) >= 2
               THEN Rejected(TwoParentsMessage)
               ELSE LET newMember == [id |-> nextId, name |-> memberName,
                                      relatedTo |-> relatedTo,
                                      relationship |-> "parent", parents |-> Undefined]
                        \* childMember.parents = childMember.parents || []
                        fresh == childMember.parents.t # "array"
                        heap == IF fresh THEN Append(arrays, <<>>) ELSE arrays
                        ref == IF fresh THEN Len(heap) ELSE childMember.parents.ref
                    IN Added([familyMembers EXCEPT ![c].parents = Ref(ref)],
                             newMember,
                             [heap EXCEPT ![ref] = Append(@, newMember.id)])

\* ChildBranch that takes the new id before it looks for the spouse.
ChildBranchEarlyId(memberName, relatedTo, isChildOfBoth) ==
    LET parentMember == MemberById(relatedTo)
    IN IF parentMember = Undefined THEN Rejected(ParentNotFoundMessage)
       ELSE LET spouse ==
                    IF parentMember.relationship = "spouse"
                    THEN MemberById(parentMember.relatedTo)
                    ELSE SpouseRecordOf(Num(parentMember.id))
                newParents ==
                    IF isChildOfBoth /\ spouse # Undefined
                    THEN <<parentMember.id, spouse.id>>
                    ELSE <<parentMember.id>>
            IN IF isChildOfBoth /\ spouse = Undefined
               THEN [Rejected(NoSpouseMessage)
                     EXCEPT !.nextId = nextId + 1]
               ELSE Added(familyMembers,
                          [id |-> nextId, name |-> memberName, relatedTo |-> relatedTo,
                           relationship |-> "child", parents |-> Ref(Len(arrays) + 1)],
                          Append(arrays, newParents))

ChildBranch(memberName, relatedTo, isChildOfBoth) ==
    LET parentMember == MemberById(relatedTo)
    IN IF parentMember = Undefined THEN Rejected(ParentNotFoundMessage)
       ELSE LET spouse ==
                    IF parentMember.relationship = "spouse"
                    THEN MemberById(parentMember.relatedTo)
                    ELSE SpouseRecordOf(Num(parentMember.id))
                newParents ==
                    IF isChildOfBoth /\ spouse # Undefined
                    THEN <<parentMember.id, spouse.id>>
                    ELSE <<parentMember.id>>
            IN IF isChildOfBoth /\ spouse = Undefined
               THEN Rejected(NoSpouseMessage)
               ELSE Added(familyMembers,
                          [id |-> nextId, name |-> memberName, relatedTo |-> relatedTo,
                           relationship |-> "child", parents |-> Ref(Len(arrays) + 1)],
                          Append(arrays, newParents))

SiblingBranch(memberName, relatedTo) ==
    LET relatedMember == MemberById(relatedTo)
    IN IF \/ relatedMember = Undefined
          \/ relatedMember.parents.t # "array"
          \/ Len(ParentsOf(relatedMember)) = 0
       THEN Rejected(NoParentMessage)
       ELSE \* parents: relatedMember.parents is the same array object
            Added(familyMembers,
                  [id |-> nextId, name |-> memberName,
                   relatedTo |-> Num(ParentsOf(relatedMember)[1]),
                   relationship |-> "sibling", parents |-> relatedMember.parents],
                  arrays)

SpouseBranch(memberName, relatedTo) ==
    LET hasSpouse == SpouseRecordOf(relatedTo) # Undefined
    IN IF hasSpouse THEN Rejected(HasSpouseMessage)
       ELSE Added(familyMembers,
                  [id |-> nextId, name |-> memberName, relatedTo |-> relatedTo,
                   relationship |-> "spouse", parents |-> Undefined],
                  arrays)

\* drawTree's layout constants.
nodeSpacingX == 150
nodeSpacingY == 150
spouseSpacing == 100

\* Coordinates after the re-centering step are counted in 1/Halves of a
\* pixel: offsetX divides maxX - minX by 2 and need not be whole.
Halves == 2

InstructionsShown == [shown |-> "instructions"]
NoRootMessage == "A family tree must have a root member to be drawn. Please add one first."

\* nodes.get(id): the entry of the nodes map for id, undefined when absent.
NodeOf(nodes, id) == FirstOf(nodes, {i \in 1..Len(nodes) : nodes[i].id = id})

\* nodes.set(node.id, node): a Map keeps insertion order and one entry per key.
NodesSet(nodes, node) ==
    IF \E i \in 1..Len(nodes) : nodes[i].id = node.id
    THEN [i \in 1..Len(nodes) |-> IF nodes[i].id = node.id THEN node ELSE nodes[i]]
    ELSE Append(nodes, node)

\* The state of the walk before positionNode(rootMember.id, 0, 0) runs: nodes,
\* processed, maxX, minX, the calls still to run (innermost first) and the
\* number of nodes.set calls made.
WalkFrom(rootMember) ==
    [shown |-> "walk", nodes |-> <<>>, processed |-> {}, maxX |-> 0, minX |-> 0,
     stack |-> <<[memberId |-> rootMember.id, x |-> 0, y |-> 0]>>, sets |-> 0]

\* m.parents && m.parents.includes(memberId)
HasParent(heap, m, memberId) ==
    m.parents.t = "array" /\ memberId \in Range(heap[m.parents.ref])

Max(a, b) == IF a >= b THEN a ELSE b
Min(a, b) == IF a <= b THEN a ELSE b

\* positionNode without the processed guard.
positionNodeNoGuard(members, heap, st) ==
    LET memberId == st.stack[1].memberId
        x == st.stack[1].x
        y == st.stack[1].y
        rest == Tail(st.stack)
        member == FirstOf(members, {i \in 1..Len(members) : members[i].id = memberId})
    IN IF member = Undefined
       THEN [st EXCEPT !.stack = rest, !.processed = @ \cup {memberId}]
       ELSE LET spouse ==
                    IF member.relationship # "spouse"
                    THEN FirstOf(members,
                                 {i \in 1..Len(members) :
                                     /\ StrictEq(members[i].relatedTo, Num(memberId))
                                     /\ members[i].relationship = "spouse"})
                    ELSE Undefined
                children == SelectSeq(members, LAMBDA m : HasParent(heap, m, memberId))
                childSpacing == IF Len(children) > 1 THEN nodeSpacingX ELSE 0
                startX == x - ((Len(children) - 1) * childSpacing) \div 2
            IN [st EXCEPT
                   !.processed = @ \cup {memberId},
                   !.nodes = NodesSet(@, [id |-> memberId, name |-> member.name,
                                          x |-> x, y |-> y,
                                          relationship |-> member.relationship]),
                   !.sets = @ + 1,
                   !.maxX = Max(@, x),
                   !.minX = Min(@, x),
                   !.stack =
                       (IF spouse # Undefined
                        THEN <<[memberId |-> spouse.id, x |-> x + spouseSpacing, y |-> y]>>
                        ELSE <<>>)
                       \o [i \in 1..Len(children) |->
                              [memberId |-> children[i].id,
                               x |-> startX + (i - 1) * childSpacing,
                               y |-> y + nodeSpacingY]]
                       \o rest]

\* positionNode with the children laid out rightwards from x.
positionNodeFromX(members, heap, st) ==
    LET memberId == st.stack[1].memberId
        x == st.stack[1].x
        y == st.stack[1].y
        rest == Tail(st.stack)
        member == FirstOf(members, {i \in 1..Len(members) : members[i].id = memberId})
    IN IF memberId \in st.processed THEN [st EXCEPT !.stack = rest]
       ELSE IF member = Undefined
       THEN [st EXCEPT !.stack = rest, !.processed = @ \cup {memberId}]
       ELSE LET spouse ==
                    IF member.relationship # "spouse"
                    THEN FirstOf(members,
                                 {i \in 1..Len(members) :
                                     /\ StrictEq(members[i].relatedTo, Num(memberId))
                                     /\ members[i].relationship = "spouse"})
                    ELSE Undefined
                children == SelectSeq(members, LAMBDA m : HasParent(heap, m, memberId))
                childSpacing == IF Len(children) > 1 THEN nodeSpacingX ELSE 0
                startX == x
            IN [st EXCEPT
                   !.processed = @ \cup {memberId},
                   !.nodes = NodesSet(@, [id |-> memberId, name |-> member.name,
                                          x |-> x, y |-> y,
                                          relationship |-> member.relationship]),
                   !.sets = @ + 1,
                   !.maxX = Max(@, x),
                   !.minX = Min(@, x),
                   !.stack =
                       (IF spouse # Undefined
                        THEN <<[memberId |-> spouse.id, x |-> x + spouseSpacing, y |-> y]>>
                        ELSE <<>>)
                       \o [i \in 1..Len(children) |->
                              [memberId |-> children[i].id,
                               x |-> startX + (i - 1) * childSpacing,
                               y |-> y + nodeSpacingY]]
                       \o rest]

\* One call of positionNode(memberId, x, y), the call on top of st.stack, up
\* to its first inner call: the calls it makes (the spouse, then the children
\* in list order) are put on the stack in the order they run.  members does
\* not change during the walk, so the children and their positions are known
\* when the call starts.
positionNode(members, heap, st) ==
    LET memberId == st.stack[1].memberId
        x == st.stack[1].x
        y == st.stack[1].y
        rest == Tail(st.stack)
        member == FirstOf(members, {i \in 1..Len(members) : members[i].id = memberId})
    IN IF memberId \in st.processed THEN [st EXCEPT !.stack = rest]
       ELSE IF member = Undefined
       THEN [st EXCEPT !.stack = rest, !.processed = @ \cup {memberId}]
       ELSE LET spouse ==
                    IF member.relationship # "spouse"
                    THEN FirstOf(members,
                                 {i \in 1..Len(members) :
                                     /\ StrictEq(members[i].relatedTo, Num(memberId))
                                     /\ members[i].relationship = "spouse"})
                    ELSE Undefined
                children == SelectSeq(members, LAMBDA m : HasParent(heap, m, memberId))
                childSpacing == IF Len(children) > 1 THEN nodeSpacingX ELSE 0
                startX == x - ((Len(children) - 1) * childSpacing) \div 2
            IN [st EXCEPT
                   !.processed = @ \cup {memberId},
                   !.nodes = NodesSet(@, [id |-> memberId, name |-> member.name,
                                          x |-> x, y |-> y,
                                          relationship |-> member.relationship]),
                   !.sets = @ + 1,
                   !.maxX = Max(@, x),
                   !.minX = Min(@, x),
                   !.stack =
                       (IF spouse # Undefined
                        THEN <<[memberId |-> spouse.id, x |-> x + spouseSpacing, y |-> y]>>
                        ELSE <<>>)
                       \o [i \in 1..Len(children) |->
                              [memberId |-> children[i].id,
                               x |-> startX + (i - 1) * childSpacing,
                               y |-> y + nodeSpacingY]]
                       \o rest]

\* positionNode(rootMember.id, 0, 0) run to its return.
RECURSIVE RunWalk(_, _, _)
RunWalk(members, heap, st) ==
    IF st.stack = <<>> THEN st ELSE RunWalk(members, heap, positionNode(members, heap, st))

\* Recentered that moves the leftmost node to x = 0.
RecenteredFromLeft(st) ==
    LET offsetX == -(Halves * st.minX)
    IN [shown |-> "svg", sets |-> st.sets,
        nodes |-> [i \in 1..Len(st.nodes) |->
                      [st.nodes[i] EXCEPT !.x = Halves * @ + offsetX]]]

\* The re-centering step: offsetX = -minX - (maxX - minX) / 2 is added to
\* every node's x.  x and offsetX are in 1/Halves of a pixel from here on.
Recentered(st) ==
    LET offsetX == -(Halves * st.minX) - (st.maxX - st.minX)
    IN [shown |-> "svg", sets |-> st.sets,
        nodes |-> [i \in 1..Len(st.nodes) |->
                      [st.nodes[i] EXCEPT !.x = Halves * @ + offsetX]]]

\* familyMembers.find(m => m.relationship === "root")
RootMemberOf(members) ==
    FirstOf(members, {i \in 1..Len(members) : members[i].relationship = "root"})

\* drawTree: what the container shows for the list members.
drawTree(members, heap) ==
    IF Len(members) = 0 THEN InstructionsShown
    ELSE IF RootMemberOf(members) = Undefined
    THEN [shown |-> "message", text |-> NoRootMessage]
    ELSE Recentered(RunWalk(members, heap, WalkFrom(RootMemberOf(members))))

\* The body of the submit listener up to `if (newMember)`.
SubmitResult(memberNameInput, relationship, relatedTo, isChildOfBoth) ==
    LET memberName == Trim(memberNameInput)
    IN IF memberName = <<>> THEN Rejected(NoNameMessage)
       ELSE IF relationship = "root" THEN RootBranch(memberName)
       ELSE IF ~Truthy(relatedTo)
       THEN Rejected(NoSelectionMessage)
       ELSE IF LooseEq(relatedTo, Str(NumToStr(nextId)))
       THEN Rejected(SelfMessage)
       ELSE CASE relationship = "parent" -> ParentBranch(memberName, relatedTo)
              [] relationship = "child" -> ChildBranch(memberName, relatedTo, isChildOfBoth)
              [] relationship = "sibling" -> SiblingBranch(memberName, relatedTo)
              [] relationship = "spouse" -> SpouseBranch(memberName, relatedTo)
              [] OTHER -> Rejected("none")

\* addMemberForm 'submit' listener, `if (newMember)` included, run while at
\* most cap members have been added.  outcome records "added" or the message
\* passed to showMessage.
SubmitUpTo(cap, memberNameInput, relationship, relatedTo, isChildOfBoth) ==
    \E r \in {SubmitResult(memberNameInput, relationship, relatedTo, isChildOfBoth)} :
        LET accepted == r.newMember # Undefined
        IN /\ accepted => nextId <= cap
           /\ familyMembers' = IF accepted THEN Append(r.members, r.newMember)
                                            ELSE r.members
           /\ arrays' = r.arrays
           /\ nextId' = r.nextId
           /\ outcome' = [call |-> "submit",
                          result |-> IF accepted THEN "added" ELSE r.message]
           /\ tree' = IF accepted THEN drawTree(familyMembers', arrays') ELSE tree

Submit(memberNameInput, relationship, relatedTo, isChildOfBoth) ==
    SubmitUpTo(MaxMembers, memberNameInput, relationship, relatedTo, isChildOfBoth)

\* A blank name is refused before the other fields are looked at.
SubmitBlank ==
    \E memberNameInput \in BlankNames, relationship \in Relationships :
        Submit(memberNameInput, relationship, Str(<<>>), FALSE)

\* The related-to select and the checkbox are hidden for 'root'.
SubmitRoot ==
    \E memberNameInput \in MemberNames \ BlankNames :
        Submit(memberNameInput, "root", Str(<<>>), FALSE)

SubmitParent ==
    \E memberNameInput \in MemberNames \ BlankNames, relatedTo \in updateDropdowns :
        Submit(memberNameInput, "parent", relatedTo, FALSE)

SubmitChild ==
    \E memberNameInput \in MemberNames \ BlankNames, relatedTo \in updateDropdowns,
       isChildOfBoth \in BOOLEAN :
        Submit(memberNameInput, "child", relatedTo, isChildOfBoth)

SubmitSibling ==
    \E memberNameInput \in MemberNames \ BlankNames, relatedTo \in updateDropdowns :
        Submit(memberNameInput, "sibling", relatedTo, FALSE)

SubmitSpouse ==
    \E memberNameInput \in MemberNames \ BlankNames, relatedTo \in updateDropdowns :
        Submit(memberNameInput, "spouse", relatedTo, FALSE)

Init ==
    /\ familyMembers = <<>>
    /\ arrays = <<>>
    /\ nextId = 1
    /\ outcome = [call |-> "none", result |-> "none"]
    /\ tree = drawTree(familyMembers, arrays)

Next ==
    \/ SubmitBlank
    \/ SubmitRoot
    \/ SubmitParent
    \/ SubmitChild
    \/ SubmitSibling
    \/ SubmitSpouse

Spec == Init /\ [][Next]_vars

\* The runs of the form in which a root and then children only are submitted:
\* families of several generations within a small number of members.
MaxFamily == 7

FamilyRoot ==
    \E memberNameInput \in MemberNames \ BlankNames :
        SubmitUpTo(MaxFamily, memberNameInput, "root", Str(<<>>), FALSE)

FamilyChild ==
    \E memberNameInput \in MemberNames \ BlankNames, relatedTo \in updateDropdowns :
        SubmitUpTo(MaxFamily, memberNameInput, "child", relatedTo, FALSE)

NextFamily ==
    \/ FamilyRoot
    \/ FamilyChild

SpecFamily == Init /\ [][NextFamily]_vars
-----------------------------------------------------------------------------
(* The walk of drawTree, one positionNode call at a time, over lists the   *)
(* handlers would not build: parents links that form a cycle or name a     *)
(* missing member, spouse records whose relatedTo is a number.             *)

\* Number of members of such a list.
MaxCorrupt == 3

\* What a member other than the root may hold: a child of any stored or
\* missing id, or a spouse of any stored id.
CorruptLinks ==
    {[relationship |-> "child", link |-> p] : p \in 1..(MaxCorrupt + 1)}
        \cup {[relationship |-> "spouse", link |-> r] : r \in 1..MaxCorrupt}

\* The root's parents list: empty, or one stored or missing id.
CorruptRootParents == {<<>>} \cup {<<p>> : p \in 1..(MaxCorrupt + 1)}

InitWalk ==
    \E rootParents \in CorruptRootParents, links \in [2..MaxCorrupt -> CorruptLinks] :
        /\ familyMembers =
             [i \in 1..MaxCorrupt |->
                 IF i = 1
                 THEN [id |-> 1, name |-> <<"a">>, relatedTo |-> Null,
                       relationship |-> "root", parents |-> Ref(1)]
                 ELSE IF links[i].relationship = "child"
                 THEN [id |-> i, name |-> <<"a">>,
                       relatedTo |-> Str(NumToStr(links[i].link)),
                       relationship |-> "child", parents |-> Ref(i)]
                 ELSE [id |-> i, name |-> <<"a">>, relatedTo |-> Num(links[i].link),
                       relationship |-> "spouse", parents |-> Undefined]]
        /\ arrays =
             [i \in 1..MaxCorrupt |->
                 IF i = 1 THEN rootParents
                 ELSE IF links[i].relationship = "child" THEN <<links[i].link>>
                 ELSE <<>>]
        /\ nextId = MaxCorrupt + 1
        /\ outcome = [call |-> "none", result |-> "none"]
        /\ tree = WalkFrom(RootMemberOf(familyMembers))

\* The next positionNode call of the walk runs.
PositionNodeCall ==
    /\ tree.shown = "walk"
    /\ tree.stack # <<>>
    /\ tree' = positionNode(familyMembers, arrays, tree)
    /\ UNCHANGED <<familyMembers, arrays, nextId, outcome>>

\* positionNode(rootMember.id, 0, 0) has returned: the nodes are re-centered.
Recenter ==
    /\ tree.shown = "walk"
    /\ tree.stack = <<>>
    /\ tree' = Recentered(tree)
    /\ UNCHANGED <<familyMembers, arrays, nextId, outcome>>

NextWalk ==
    \/ PositionNodeCall
    \/ Recenter

\* drawTree runs to completion once started: nothing else is scheduled
\* before it returns.
SpecWalk == InitWalk /\ [][NextWalk]_vars /\ WF_vars(NextWalk)

-----------------------------------------------------------------------------
(* src/unnamed/part_000                                                    *)

\* Largest number of addMember calls part_000 is run to.
MaxAdds == 3

UpperCase == <<"A", "B", "C", "D", "E", "F", "G", "H", "I", "J", "K", "L", "M",
               "N", "O", "P", "Q", "R", "S", "T", "U", "V", "W", "X", "Y", "Z">>
LowerCase == <<"a", "b", "c", "d", "e", "f", "g", "h", "i", "j", "k", "l", "m",
               "n", "o", "p", "q", "r", "s", "t", "u", "v", "w", "x", "y", "z">>

\* String.prototype.toLowerCase
LowerOf ==
    [c \in {UpperCase[k] : k \in 1..Len(UpperCase)} |->
        LowerCase[CHOOSE k \in 1..Len(UpperCase) : UpperCase[k] = c]]
ToLowerCase(s) ==
    [i \in 1..Len(s) |-> IF s[i] \in DOMAIN LowerOf THEN LowerOf[s[i]] ELSE s[i]]

\* parseInt of a form value: the number a decimal numeral denotes, else NaN.
ParseInt(v) ==
    LET t == Trim(v.s)
    IN IF t # <<>> /\ \A i \in 1..Len(t) : t[i] \in DigitSet
       THEN Num(DigitsToNat(t)) ELSE NaN

\* The values of the parent, spouse and delete selects: the default option
\* and one option per stored member.
SelectOptions(default) ==
    {Str(default)} \cup {Str(NumToStr(familyMembers[i].id)) : i \in 1..Len(familyMembers)}

\* The names typed into the add form that are refused: a blank one and the
\* stored names in lower case.
NamesRefused ==
    {<<" ">>} \cup {ToLowerCase(familyMembers[i].name) : i \in 1..Len(familyMembers)}

\* The names typed into the add form that no stored member has.
NamesUnused == {<<"M">> \o NumToStr(nextId)}

\* gender is stored and never read.
Genders == {"female"}

\* updateFamilyStructure from the i-th member on: forEach visits the members
\* in order and sees the links set for the earlier ones.
RECURSIVE LinkSpousesFrom(_, _)
LinkSpousesFrom(members, i) ==
    IF i > Len(members) THEN members
    ELSE LET member == members[i]
             I == {k \in 1..Len(members) : StrictEq(Num(members[k].id), member.spouse)}
             k == IF I = {} THEN 0 ELSE CHOOSE x \in I : \A y \in I : x <= y
         IN IF Truthy(member.spouse) /\ k # 0 /\ members[k].spouse = Null
            THEN LinkSpousesFrom([members EXCEPT ![k].spouse = Num(member.id)], i + 1)
            ELSE LinkSpousesFrom(members, i + 1)

updateFamilyStructure(members) == LinkSpousesFrom(members, 1)

\* addMember taking the id from the length of the list instead of the counter.
addMemberIdFromLength(name, gender, parent1Id, parent2Id, spouseId) ==
    IF \E i \in 1..Len(familyMembers) :
           ToLowerCase(familyMembers[i].name) = ToLowerCase(name)
    THEN [members |-> familyMembers, nextId |-> nextId, id |-> 0,
          result |-> "A member with this name already exists. Please use a unique name."]
    ELSE LET newMember ==
                 [id |-> Len(familyMembers) + 1, name |-> name, gender |-> gender,
                  parents |-> (IF Truthy(parent1Id) THEN <<ParseInt(parent1Id).n>> ELSE <<>>)
                              \o (IF Truthy(parent2Id) THEN <<ParseInt(parent2Id).n>> ELSE <<>>),
                  spouse |-> IF Truthy(spouseId) THEN ParseInt(spouseId) ELSE Null]
         IN [members |-> updateFamilyStructure(Append(familyMembers, newMember)),
             nextId |-> nextId + 1, id |-> newMember.id, result |-> "added"]

\* addMember up to the redraw: the list, the counter and what was reported.
addMember(name, gender, parent1Id, parent2Id, spouseId) ==
    IF \E i \in 1..Len(familyMembers) :
           ToLowerCase(familyMembers[i].name) = ToLowerCase(name)
    THEN [members |-> familyMembers, nextId |-> nextId, id |-> 0,
          result |-> "A member with this name already exists. Please use a unique name."]
    ELSE LET newMember ==
                 [id |-> nextId, name |-> name, gender |-> gender,
                  parents |-> (IF Truthy(parent1Id) THEN <<ParseInt(parent1Id).n>> ELSE <<>>)
                              \o (IF Truthy(parent2Id) THEN <<ParseInt(parent2Id).n>> ELSE <<>>),
                  spouse |-> IF Truthy(spouseId) THEN ParseInt(spouseId) ELSE Null]
         IN [members |-> updateFamilyStructure(Append(familyMembers, newMember)),
             nextId |-> nextId + 1, id |-> newMember.id, result |-> "added"]

\* familyMembers.filter(m => m.id !== memberId && m.spouse !== memberId)
KeepOthers(members, memberId) ==
    SelectSeq(members, LAMBDA m : ~StrictEq(Num(m.id), memberId)
                                  /\ ~StrictEq(m.spouse, memberId))

\* The forEach of deleteMember without the parents filter.
ClearSpouseOnly(members, memberId) ==
    [i \in 1..Len(members) |->
        [members[i] EXCEPT
            !.spouse = IF StrictEq(@, memberId) THEN Null ELSE @]]

\* The forEach of deleteMember: drop memberId from every parents list and
\* clear the spouse links to it.
RemoveReferences(members, memberId) ==
    [i \in 1..Len(members) |->
        [members[i] EXCEPT
            !.parents = SelectSeq(@, LAMBDA pId : ~StrictEq(Num(pId), memberId)),
            !.spouse = IF StrictEq(@, memberId) THEN Null ELSE @]]

\* deleteMember up to the redraw.
deleteMember(value) ==
    LET memberId == ParseInt(value)
    IN IF StrictEq(memberId, Num(0))
       THEN [members |-> familyMembers, result |-> "Please select a member to delete."]
       ELSE IF ~\E i \in 1..Len(familyMembers) : StrictEq(Num(familyMembers[i].id), memberId)
       THEN [members |-> familyMembers, result |-> "none"]
       ELSE [members |-> updateFamilyStructure(
                            RemoveReferences(KeepOthers(familyMembers, memberId), memberId)),
             result |-> "deleted"]

PlaceholderShown == [shown |-> "placeholder"]

\* buildTreeData: null for an empty list and for a list without a member
\* whose parents list is empty; else the first such member as the root node,
\* with every member listed under the first of its parents.
buildTreeData(members) ==
    LET rootNode ==
            FirstOf(members, {i \in 1..Len(members) : Len(members[i].parents) = 0})
    IN IF Len(members) = 0 THEN Null
       ELSE IF rootNode = Undefined THEN Null
       ELSE [t |-> "node", id |-> rootNode.id,
             children |->
                 [i \in 1..Len(members) |->
                     [id |-> members[i].id,
                      children |->
                          SelectSeq(members,
                                    LAMBDA m : /\ Len(m.parents) > 0
                                               /\ m.parents[1] = members[i].id)]]]

\* part_000's drawTree: the placeholder when buildTreeData returns null, else
\* the drawing of the hierarchy.
drawTree000(members) ==
    IF ~Truthy(buildTreeData(members)) THEN PlaceholderShown
    ELSE [shown |-> "svg", treeData |-> buildTreeData(members)]

\* addMemberForm 'submit' listener.
SubmitAdd(name, gender, parent1Id, parent2Id, spouseId) ==
    \E r \in {IF Trim(name) = <<>>
               THEN [members |-> familyMembers, nextId |-> nextId, id |-> 0,
                     result |-> "Please enter a name for the family member."]
               ELSE addMember(name, gender, parent1Id, parent2Id, spouseId)} :
        /\ familyMembers' = r.members
        /\ nextId' = r.nextId
        /\ outcome' = [call |-> "addMember", arg |-> r.id, result |-> r.result]
        /\ tree' = IF r.result = "added" THEN drawTree000(familyMembers') ELSE tree
        /\ UNCHANGED arrays

\* A blank or duplicate name is refused before the selects are looked at.
SubmitAddRefused ==
    \E name \in NamesRefused, gender \in Genders :
        SubmitAdd(name, gender, Str(<<>>), Str(<<>>), Str(<<>>))

\* A name no stored member has is accepted; at most MaxAdds members are added.
SubmitAddMember ==
    /\ nextId <= MaxAdds
    /\ \E name \in NamesUnused, gender \in Genders,
          parent1Id \in SelectOptions(<<>>), parent2Id \in SelectOptions(<<>>),
          spouseId \in SelectOptions(<<>>) :
           SubmitAdd(name, gender, parent1Id, parent2Id, spouseId)

\* deleteMemberForm 'submit' listener.
SubmitDeleteMember ==
    \E value \in SelectOptions(<<"0">>) :
        \E r \in {deleteMember(value)} :
           /\ familyMembers' = r.members
           /\ outcome' = [call |-> "deleteMember", arg |-> ParseInt(value).n,
                          result |-> r.result]
           /\ tree' = IF r.result = "deleted" THEN drawTree000(familyMembers') ELSE tree
           /\ UNCHANGED <<nextId, arrays>>

Init000 ==
    /\ familyMembers = <<>>
    /\ arrays = <<>>
    /\ nextId = 1
    /\ outcome = [call |-> "none", arg |-> 0, result |-> "none"]
    /\ tree = drawTree000(familyMembers)

Next000 ==
    \/ SubmitAddRefused
    \/ SubmitAddMember
    \/ SubmitDeleteMember

Spec000 == Init000 /\ [][Next000]_vars

-----------------------------------------------------------------------------
(* src/unnamed/part_001                                                    *)

\* Largest number of members part_001 is run to.
MaxForm == 4

\* The value of the root option of the related-to select.
RootOption == Str(<<"0">>)

\* updateRelatedToDropdown: the root option and one option per member, whose
\* value is the member's id as a string.
updateRelatedToDropdown ==
    {RootOption} \cup {Str(NumToStr(familyMembers[i].id)) : i \in 1..Len(familyMembers)}

\* The values of the relationship select; the code only tells "spouse" from
\* the others.
Relationships001 == {"child", "spouse"}

FirstMustBeRootMessage ==
    "The first member of the tree must be the root (Related to: This is the Root of the tree)."

\* familyMembers.filter(m => m.relationship !== "spouse")
hierarchicalMembers(members) == SelectSeq(members, LAMBDA m : m.relationship # "spouse")

\* .parentId(d => d.relatedTo === "0" ? null : d.relatedTo)
parentId(d) == IF StrictEq(d.relatedTo, RootOption) THEN Null ELSE d.relatedTo

\* What d3.stratify does with the i-th and later nodes, rooted telling whether
\* an earlier node had a null parent: it throws on a second node with a null
\* parent and on a parent id that no node has, and at the end when no node
\* had a null parent.  Ids are compared as strings.
RECURSIVE StratifyFrom(_, _, _)
StratifyFrom(nodes, i, rooted) ==
    IF i > Len(nodes) THEN (IF rooted THEN "ok" ELSE "no root")
    ELSE IF parentId(nodes[i]) = Null
    THEN (IF rooted THEN "multiple roots" ELSE StratifyFrom(nodes, i + 1, TRUE))
    ELSE IF \E k \in 1..Len(nodes) : Str(NumToStr(nodes[k].id)) = parentId(nodes[i])
    THEN StratifyFrom(nodes, i + 1, rooted)
    ELSE "missing"

\* part_001's drawTree: the instructions for an empty list, else the tree of
\* the non-spouse members when stratify accepts them and the emptied
\* container with the error thrown when it does not; a list of spouses only
\* shows the member related to "0", if any.
drawTree001(members) ==
    IF Len(members) = 0 THEN InstructionsShown
    ELSE IF Len(hierarchicalMembers(members)) > 0
    THEN [shown |-> "svg", stratify |-> StratifyFrom(hierarchicalMembers(members), 1, FALSE)]
    ELSE [shown |-> "svg",
          stratify |-> IF \E i \in 1..Len(members) : StrictEq(members[i].relatedTo, RootOption)
                       THEN "root only" ELSE "nothing"]

\* part_001's addMemberForm 'submit' listener.
Submit001(memberName, relatedTo, relationship) ==
    IF Len(familyMembers) = 0 /\ ~StrictEq(relatedTo, RootOption)
    THEN /\ outcome' = [call |-> "submit", result |-> FirstMustBeRootMessage]
         /\ UNCHANGED <<familyMembers, arrays, nextId, tree>>
    ELSE /\ nextId <= MaxForm
         /\ familyMembers' = Append(familyMembers,
                                    [id |-> nextId, name |-> memberName,
                                     relatedTo |-> relatedTo, relationship |-> relationship])
         /\ nextId' = nextId + 1
         /\ outcome' = [call |-> "submit", result |-> "added"]
         /\ tree' = drawTree001(familyMembers')
         /\ UNCHANGED arrays

SubmitMember ==
    \E memberName \in MemberNames \ BlankNames, relatedTo \in updateRelatedToDropdown,
       relationship \in Relationships001 :
        Submit001(memberName, relatedTo, relationship)

Init001 ==
    /\ familyMembers = <<>>
    /\ arrays = <<>>
    /\ nextId = 1
    /\ outcome = [call |-> "none", result |-> "none"]
    /\ tree = drawTree001(familyMembers)

Next001 == SubmitMember

Spec001 == Init001 /\ [][Next001]_vars

-----------------------------------------------------------------------------
(* Properties of src/JS/script.js                                          *)

Members == Range(familyMembers)
MemberIds == {m.id : m \in Members}

\* The ids in m.parents; none when the list is empty or the property absent.
ParentIds(m) == IF m.parents.t = "array" THEN Range(arrays[m.parents.ref]) ELSE {}

Roots == {m \in Members : m.relationship = "root"}

\* C1: once a root has been accepted, every later 'root' submission is
\* rejected and leaves familyMembers and nextId unchanged, and a non-empty
\* list holds exactly one member with relationship 'root'.
C1_RootUniqueness ==
    /\ [](familyMembers # <<>> => Cardinality(Roots) = 1)
    /\ [][(Roots # {} /\ SubmitRoot) =>
            /\ outcome'.result = DuplicateRootMessage
            /\ UNCHANGED <<familyMembers, nextId>>]_vars

\* A second root was submitted and refused after further members were added.
C1_Witness ==
    /\ outcome.result = DuplicateRootMessage
    /\ Len(familyMembers) >= 2
    /\ Cardinality(Roots) = 1

\* Members whose parents list is empty or absent.
WithoutParents == {m \in Members : ParentIds(m) = {}}

PartnerOf(m) == StrToNum(m.relatedTo.s).n

\* The spouse pairs person id belongs to: one per spouse record that is the
\* person or names the person.
SpousePairsOf(id) ==
    {m \in Members : m.relationship = "spouse" /\ (m.id = id \/ PartnerOf(m) = id)}

\* C3: a 'spouse' submission related to P is rejected whenever P already has
\* a spouse, so that every person belongs to at most one spouse pair.
C3_Monogamy == \A id \in MemberIds : Cardinality(SpousePairsOf(id)) <= 1

\* The member pushed by the step, when the step is an accepted submission.
AcceptedAs(relationship) ==
    /\ outcome'.result = "added"
    /\ Len(familyMembers') = Len(familyMembers) + 1
    /\ familyMembers'[Len(familyMembers')].relationship = relationship

\* C5: every parents list holds at most 2 ids, pairwise distinct, and an
\* accepted 'parent' submission names a child that had fewer than 2 parents.
C5_AtMostTwoParents ==
    /\ [](\A k \in 1..Len(arrays) :
            /\ Len(arrays[k]) <= 2
            /\ Cardinality(Range(arrays[k])) = Len(arrays[k]))
    /\ [][AcceptedAs("parent") =>
            \A m \in Members :
                LooseEq(Num(m.id), familyMembers'[Len(familyMembers')].relatedTo)
                    => Cardinality(ParentIds(m)) < 2]_vars

\* A third parent was refused for a child that holds two distinct parents.
C5_Witness ==
    /\ outcome.result = TwoParentsMessage
    /\ \E m \in Members : Cardinality(ParentIds(m)) = 2

\* a and b are spouses of each other: one was added as 'spouse' of the other.
AreSpouses(a, b) ==
    \E m \in Members :
        /\ m.relationship = "spouse"
        /\ {m.id, PartnerOf(m)} = {a, b}

\* C6: any member whose parents list holds 2 ids has two parents who are
\* spouses of each other.
C6_TwoParentsAreSpouses ==
    \A m \in Members :
        (m.parents.t = "array" /\ Len(ParentsOf(m)) = 2)
            => AreSpouses(ParentsOf(m)[1], ParentsOf(m)[2])

\* The ids reachable from the set S by following parents links n times or fewer,
\* S included.
RECURSIVE UpTo(_, _)
UpTo(S, n) ==
    IF n = 0 THEN S
    ELSE LET T == S \cup UNION {ParentIds(m) : m \in {x \in Members : x.id \in S}}
         IN IF T = S THEN S ELSE UpTo(T, n - 1)

\* The ids reachable from m by following parents links one or more times.
Ancestors(m) == UpTo(ParentIds(m), Len(familyMembers))

\* C7: the parent relation is acyclic: no member is reached from itself by
\* following parents links one or more times.
C7_Acyclic == \A m \in Members : m.id \notin Ancestors(m)

\* A parent was added after a sibling that shares the child's parents array.
C7_Witness ==
    \E s \in Members, p \in Members :
        /\ s.relationship = "sibling"
        /\ p.relationship = "parent"
        /\ p.id > s.id
        /\ p.id \in ParentIds(s)

\* C10: a submission that ends in showMessage leaves familyMembers, every
\* parents list and nextId as they were.
C10_RejectionChangesNothing ==
    [][outcome'.result # "added" => UNCHANGED <<familyMembers, arrays, nextId>>]_vars

\* A submission was refused while members were stored.
C10_Witness ==
    /\ familyMembers # <<>>
    /\ outcome.result \in {DuplicateRootMessage, TwoParentsMessage, NoSpouseMessage,
                           NoParentMessage, HasSpouseMessage}

\* A 'sibling' submission whose related-to option is the root.
SiblingOfRoot ==
    \E memberNameInput \in MemberNames \ BlankNames, m \in Roots :
        Submit(memberNameInput, "sibling", Str(NumToStr(m.id)), FALSE)

\* C12: a 'sibling' submission whose related member is the root is rejected
\* in every reachable state, and a sibling add succeeds only if the related
\* member has a non-empty parents list: the accepted sibling holds the
\* parents array of a stored member, which was non-empty before the step.
C12_SiblingOfRootRejected ==
    /\ [][SiblingOfRoot => outcome'.result = NoParentMessage]_vars
    /\ [][AcceptedAs("sibling") =>
            \E m \in Members :
                /\ m.parents = familyMembers'[Len(familyMembers')].parents
                /\ ParentIds(m) # {}]_vars

\* The nodes map drawTree built last, in insertion order; x in 1/Halves of a
\* pixel.
Nodes == IF tree.shown = "svg" THEN tree.nodes ELSE <<>>

\* C13: every child added with both parents (a person and that person's
\* spouse) is positioned with x at the midpoint of the two parents' x and y
\* at the parents' y plus nodeSpacingY.
C13_ChildAtParentsMidpoint ==
    \A m \in Members :
        (/\ m.relationship = "child"
         /\ m.parents.t = "array"
         /\ Len(ParentsOf(m)) = 2
         /\ AreSpouses(ParentsOf(m)[1], ParentsOf(m)[2])) =>
            LET child == NodeOf(Nodes, m.id)
                parent1 == NodeOf(Nodes, ParentsOf(m)[1])
                parent2 == NodeOf(Nodes, ParentsOf(m)[2])
            IN /\ child # Undefined
               /\ parent1 # Undefined
               /\ parent2 # Undefined
               /\ 2 * child.x = parent1.x + parent2.x
               /\ child.y = parent1.y + nodeSpacingY
               /\ child.y = parent2.y + nodeSpacingY

\* C14: drawTree positions every stored member exactly once: the nodes map
\* has one entry for each element of familyMembers and nodes.set ran once
\* for each.
C14_EveryMemberPositioned ==
    /\ Len(Nodes) = Len(familyMembers)
    /\ \A m \in Members : NodeOf(Nodes, m.id) # Undefined
    /\ tree.shown = "svg" => tree.sets = Len(familyMembers)

\* C16: for every positioned person M that is not a spouse record and has a
\* spouse S, S is positioned at (M.x + spouseSpacing, M.y), and the walk
\* never starts at a spouse record.
C16_SpouseBesidePartner ==
    /\ \A i \in 1..Len(Nodes) :
          Nodes[i].relationship # "spouse" =>
              \A S \in Members :
                  (S.relationship = "spouse" /\ LooseEq(S.relatedTo, Num(Nodes[i].id))) =>
                      /\ NodeOf(Nodes, S.id) # Undefined
                      /\ NodeOf(Nodes, S.id).x = Nodes[i].x + Halves * spouseSpacing
                      /\ NodeOf(Nodes, S.id).y = Nodes[i].y
    /\ Nodes # <<>> => Nodes[1].relationship # "spouse"

\* The children of the person with this id, in list order.
ChildrenOf(id) == SelectSeq(familyMembers, LAMBDA m : HasParent(arrays, m, id))

RECURSIVE SumX(_)
SumX(ids) == IF ids = <<>> THEN 0 ELSE NodeOf(Nodes, ids[1].id).x + SumX(Tail(ids))

XsOf(nodes) == {nodes[i].x : i \in 1..Len(nodes)}
LeftmostX(nodes) == CHOOSE x \in XsOf(nodes) : \A z \in XsOf(nodes) : x <= z
RightmostX(nodes) == CHOOSE x \in XsOf(nodes) : \A z \in XsOf(nodes) : x >= z

C19_WalkTerminates ==
    /\ <>(tree.shown = "svg")
    /\ [](tree.shown \in {"walk", "svg"} =>
            /\ tree.sets = Len(tree.nodes)
            /\ tree.sets <= Len(familyMembers)
            /\ \A i \in 1..Len(tree.nodes), j \in 1..Len(tree.nodes) :
                   tree.nodes[i].id = tree.nodes[j].id => i = j)

\* The walk has returned on a list in which a member is its own ancestor and
\* another names a missing parent.
C19_Witness ==
    /\ tree.shown = "svg"
    /\ \E m \in Members : m.id \in Ancestors(m)
    /\ \E m \in Members : ~(ParentIds(m) \subseteq MemberIds)
    /\ Len(tree.nodes) >= 2

\* The parents list of m in the list and heap given; undefined when absent.
ParentsIn(heap, m) == IF m.parents.t = "array" THEN heap[m.parents.ref] ELSE Undefined

\* C20: an accepted 'parent' submission related to child C changes the
\* parents list of C only: every other stored member has the same parents
\* list after the submission as before it.
C20_ParentChangesOnlyThatChild ==
    [][AcceptedAs("parent") =>
        \A i \in 1..Len(familyMembers) :
            ~LooseEq(Num(familyMembers[i].id), familyMembers'[Len(familyMembers')].relatedTo)
                => ParentsIn(arrays', familyMembers'[i]) = ParentsIn(arrays, familyMembers[i])]_vars

\* C21: no two distinct positioned members are given the same (x, y)
\* coordinates by drawTree.
C21_NoTwoNodesCoincide ==
    \A i \in 1..Len(Nodes), j \in 1..Len(Nodes) :
        (Nodes[i].x = Nodes[j].x /\ Nodes[i].y = Nodes[j].y) => i = j

-----------------------------------------------------------------------------
(* Properties of src/unnamed/part_000                                      *)

\* C4: the spouse field is symmetric: for stored members A and B,
\* A.spouse = B.id implies B.spouse = A.id.
C4_SpouseSymmetric ==
    \A a \in Members, b \in Members :
        a.spouse = Num(b.id) => b.spouse = Num(a.id)

\* C8: after deleteMember(id) for a stored id, no remaining member has id in
\* its parents list and none has spouse equal to id.
C8_DeletionCleanup ==
    (outcome.call = "deleteMember" /\ outcome.result = "deleted") =>
        \A m \in Members :
            /\ outcome.arg \notin Range(m.parents)
            /\ m.spouse # Num(outcome.arg)

\* A parent was deleted and its child is still stored, without it.
C8_Witness ==
    /\ outcome.call = "deleteMember"
    /\ outcome.result = "deleted"
    /\ \E m \in Members : m.id > outcome.arg /\ m.parents = <<>>

\* C9: deleteMember(id) removes exactly the member with that id: every other
\* member stored before the call is stored after it.
C9_DeletesOnlyThatMember ==
    [][(outcome'.call = "deleteMember" /\ outcome'.result = "deleted") =>
        \A m \in Members :
            m.id # outcome'.arg => \E n \in Range(familyMembers') : n.id = m.id]_vars

\* C11: ids are assigned in strictly increasing order, no two stored members
\* share an id, and an id once assigned is never assigned again: the stored
\* ids increase along the list and lie below nextId, nextId never decreases,
\* and an accepted addMember hands out the old nextId and moves nextId past it.
C11_IdsNeverReused ==
    /\ [](\A i \in 1..Len(familyMembers), j \in 1..Len(familyMembers) :
            i < j => familyMembers[i].id < familyMembers[j].id)
    /\ [](\A m \in Members : m.id < nextId)
    /\ [][nextId' >= nextId]_vars
    /\ [][(outcome'.call = "addMember" /\ outcome'.result = "added") =>
            /\ outcome'.arg = nextId
            /\ nextId' = nextId + 1
            /\ familyMembers'[Len(familyMembers')].id = nextId
            /\ \A m \in Members : m.id < outcome'.arg]_vars

\* A member was added after an earlier member had been deleted.
C11_Witness ==
    /\ outcome.call = "addMember"
    /\ outcome.result = "added"
    /\ \E id \in 1..(outcome.arg - 1) : id \notin MemberIds
    /\ outcome.arg \in MemberIds

\* C15: drawTree shows the empty-tree placeholder if and only if
\* familyMembers is empty.
C15_PlaceholderIffEmpty == (tree = PlaceholderShown) <=> (familyMembers = <<>>)

-----------------------------------------------------------------------------
(* Properties of src/unnamed/part_001                                      *)

\* The non-spouse members.
Hierarchical == Range(hierarchicalMembers(familyMembers))

\* C22: the non-spouse members form a single-rooted hierarchy: exactly one
\* of them has relatedTo "0", and every other one has a relatedTo that is
\* the id of a stored non-spouse member.
C22_SingleRootedHierarchy ==
    familyMembers # <<>> =>
        /\ Cardinality({m \in Hierarchical : m.relatedTo = RootOption}) = 1
        /\ \A m \in Hierarchical :
               m.relatedTo # RootOption =>
                   \E n \in Hierarchical : Str(NumToStr(n.id)) = m.relatedTo
====
